---- MODULE Spec2Model ----
(***************************************************************************)
(* State-machine model of the product-feed pipeline of malatang_processor  *)
(* / gui_processor / gui_fluent: feed -> products -> catalog (Excel) ->    *)
(* images.                                                                 *)
(*                                                                         *)
(*   SpecFetch  one call of ImageDownloader._download_single_image, step   *)
(*              by step (HTTP attempt, writes, conversion, fallback), and  *)
(*              the counting of its result by the image loop.              *)
(*   Spec       runs of ProcessorThread.run / GUIProcessor.process_file    *)
(*              over a feed file, a catalog file and an image directory.   *)
(***************************************************************************)
EXTENDS Integers, Sequences, FiniteSets, TLC

VARIABLES
    convertToJpg,   \* Config.CONVERT_TO_JPG
    dl,             \* state of the _download_single_image call in progress
    downloaded,     \* downloaded_count of the image loop
    skipped,        \* skipped_count
    failed,         \* failed_count
    feed,           \* the feed file (input_file) as it is on disk now
    catalog,        \* the catalog file (output_excel)
    imagesDir,      \* whether the directory "images" exists
    images,         \* content of images/<filename>, per filename
    temps,          \* filenames whose '.temp' file is on disk
    clock,          \* runs started so far; datetime.now() of a run
    pc,             \* position of the ProcessorThread
    data,           \* the parsed feed of the run
    products,       \* the extracted products of the run
    new_products,   \* len(new_products) of process_file
    idx,            \* position of the image loop in products
    current_step,   \* self.current_step of the GUIProcessor
    results,        \* the results dict process_file returns
    atStart,        \* catalog, images and imagesDir when the run started
    saveLog,        \* what save_products_to_excel loaded and wrote
    imgLog,         \* per product of the image loop: what was found and done
    lastRun,        \* the feed and the result of the previous run
    should_stop,    \* ProcessorThread.should_stop of the thread of the run
    errorLogs,      \* log_signal emissions of level "ERROR" of the latest run
    win,            \* FluentMainWindow: monitoring flag, timers, buttons
    threads,        \* the ProcessorThreads whose run() has not returned
    now,            \* the time, in seconds
    monitor         \* FileMonitorHandler and the call it is making

fsVars == <<feed, catalog, imagesDir, images, temps>>
runVars == <<clock, pc, data, products, new_products, idx, current_step, results>>
logVars == <<atStart, saveLog, imgLog, lastRun>>
counters == <<downloaded, skipped, failed>>
ctlVars == <<win, threads, now, monitor>>
vars == <<convertToJpg, dl, counters, fsVars, runVars, logVars, should_stop,
          errorLogs, ctlVars>>

(***************************************************************************)
(* Config                                                                  *)
(***************************************************************************)
MAX_RETRIES == 3
MinFileSize == 1024
AdapterTotal == 3
NetworkDelay == 2
OtherDelay == 1

(***************************************************************************)
(* Files.  A path holds nothing, a file being written (opened 'wb', not    *)
(* yet completely written), the raw response bytes, or an encoded JPEG.    *)
(* "size" is the number of bytes of the response the content comes from.   *)
(***************************************************************************)
Absent == [kind |-> "absent", size |-> 0]
Partial(b) == [kind |-> "partial", size |-> b.size]
Raw(b) == [kind |-> "raw", size |-> b.size]
Jpg(b) == [kind |-> "jpg", size |-> b.size]

Exists(c) == c.kind # "absent"

\* A response body: whether PIL can decode it, and its length in bytes.
BodySizes == {MinFileSize - 1, MinFileSize}
Bodies == [img : BOOLEAN, size : BodySizes]
NoBody == [img |-> FALSE, size |-> 0]

(***************************************************************************)
(* ImageDownloader._download_single_image and _download_and_convert_to_jpg *)
(* as a step relation on the record of one call.                           *)
(*   attempt   the loop variable of "for attempt in range(MAX_RETRIES)"    *)
(*   wire      HTTP requests sent so far (the mounted adapter re-sends a   *)
(*             request up to AdapterTotal times before session.get ends)   *)
(*   outcomes  how each attempt ended, in order                            *)
(*   sleeps    the time.sleep() calls made, in order                       *)
(*   file      content of file_path; temp: content of file_path + '.temp' *)
(***************************************************************************)
DlIdle ==
    [pc |-> "idle", attempt |-> 0, wire |-> 0, body |-> NoBody, ret |-> "none",
     outcomes |-> <<>>, sleeps |-> <<>>, sleepFor |-> 0,
     file |-> Absent, temp |-> Absent, convFailed |-> FALSE, fallback |-> "none"]

DlStart(file) == [DlIdle EXCEPT !.pc = "get", !.file = file]

\* The classified request failures and the delay their handler sleeps.
NetworkErrors == {"ssl", "conn", "timeout"}

\* Handlers that all sleep as long as the handlers of the network errors do.
RetryDelaySame(err) == NetworkDelay

RetryDelay(err) == IF err \in NetworkErrors THEN NetworkDelay ELSE OtherDelay

\* A handler that compares the attempt number with MAX_RETRIES itself and so
\* lets the loop go round once more than range(MAX_RETRIES) does.
AttemptFailedOneMore(f, err) ==
    LET g == [f EXCEPT !.outcomes = Append(@, err)]
    IN  IF f.attempt < MAX_RETRIES
        THEN [g EXCEPT !.pc = "sleep", !.sleepFor = RetryDelay(err)]
        ELSE [g EXCEPT !.pc = "done", !.ret = "false"]

\* An except-handler of the retry loop: sleep and go round again unless this
\* was the last attempt, after which the loop ends and the call returns False.
AttemptFailed(f, err) ==
    LET g == [f EXCEPT !.outcomes = Append(@, err)]
    IN  IF f.attempt < MAX_RETRIES - 1
        THEN [g EXCEPT !.pc = "sleep", !.sleepFor = RetryDelay(err)]
        ELSE [g EXCEPT !.pc = "done", !.ret = "false"]

\* One session.get sends the request once, or, when the adapter re-sent it
\* as often as Retry(total=3) allows, AdapterTotal + 1 times.
WireCounts == {1, AdapterTotal + 1}

\* session.get(...) and response.raise_for_status().
HttpGetSucc(f, convert) ==
    {[f EXCEPT !.wire = @ + n, !.body = b,
               !.pc = IF convert THEN "temp_write" ELSE "open"] :
        n \in WireCounts, b \in Bodies}
    \cup {AttemptFailed([f EXCEPT !.wire = @ + AdapterTotal + 1], e) :
            e \in NetworkErrors}
    \cup {AttemptFailed([f EXCEPT !.wire = @ + n], "status") :
            n \in WireCounts}

\* A retry that goes round again without counting the attempt.
SleepSuccSameAttempt(f) ==
    {[f EXCEPT !.pc = "get", !.sleeps = Append(@, f.sleepFor), !.sleepFor = 0]}

\* time.sleep(d); continue
SleepSucc(f) ==
    {[f EXCEPT !.pc = "get", !.attempt = @ + 1,
               !.sleeps = Append(@, f.sleepFor), !.sleepFor = 0]}

\* with open(file_path, 'wb') as f:      (CONVERT_TO_JPG false)
OpenSucc(f) ==
    {[f EXCEPT !.pc = "write", !.file = Partial(f.body)],
     AttemptFailed(f, "write_error")}

\* f.write(response.content)
WriteSucc(f) ==
    {[f EXCEPT !.pc = "size", !.file = Raw(f.body)],
     AttemptFailed(f, "write_error")}

\* file_size = os.path.getsize(file_path); if file_size < 1024: ...
SizeCheckSucc(f) ==
    IF f.file.size < MinFileSize
    THEN {[f EXCEPT !.pc = "done", !.file = Absent, !.ret = "false",
                    !.outcomes = Append(@, "small")]}
    ELSE {[f EXCEPT !.pc = "done", !.ret = "true",
                    !.outcomes = Append(@, "ok")]}

\* with open(temp_path, 'wb') as f: f.write(image_data)
TempWriteSucc(f) ==
    {[f EXCEPT !.pc = "decode", !.temp = Raw(f.body)],
     [f EXCEPT !.pc = "fallback", !.temp = Partial(f.body)],
     [f EXCEPT !.pc = "fallback"]}

\* Image.open(temp_path) and the conversion to RGB
DecodeSucc(f) ==
    IF f.body.img
    THEN {[f EXCEPT !.pc = "save"]}
    ELSE {[f EXCEPT !.pc = "fallback", !.convFailed = TRUE]}

\* img.save(file_path, 'JPEG', ...): the encoder opens file_path itself
SaveSucc(f) ==
    {[f EXCEPT !.pc = "saving", !.file = Partial(f.body)],
     [f EXCEPT !.pc = "fallback", !.convFailed = TRUE]}

\* ... and writes the encoded image into it.  When encoding fails the file it
\* created is left as it is or removed, depending on the Pillow version.
SavingSucc(f) ==
    {[f EXCEPT !.pc = "remove_temp", !.file = Jpg(f.body)],
     [f EXCEPT !.pc = "fallback", !.convFailed = TRUE],
     [f EXCEPT !.pc = "fallback", !.convFailed = TRUE, !.file = Absent]}

\* os.remove(temp_path); return True
RemoveTempSucc(f) ==
    {[f EXCEPT !.pc = "finally", !.temp = Absent, !.ret = "true"],
     [f EXCEPT !.pc = "fallback"]}

\* except Exception: with open(file_path, 'wb') as f:
FallbackSucc(f) ==
    {[f EXCEPT !.pc = "fallback_write", !.file = Partial(f.body)],
     [f EXCEPT !.pc = "finally", !.ret = "false", !.fallback = "failed"]}

\* A fallback that writes the bytes and still returns False.
FallbackWriteLost(f) ==
    {[f EXCEPT !.pc = "finally", !.file = Raw(f.body), !.ret = "false",
               !.fallback = "written"],
     [f EXCEPT !.pc = "finally", !.ret = "false", !.fallback = "failed"]}

\* f.write(image_data); return True  /  except Exception: return False
FallbackWriteSucc(f) ==
    {[f EXCEPT !.pc = "finally", !.file = Raw(f.body), !.ret = "true",
               !.fallback = "written"],
     [f EXCEPT !.pc = "finally", !.ret = "false", !.fallback = "failed"]}

\* finally: if os.path.exists(temp_path): try: os.remove(temp_path) except: pass
\* The value is returned as it is by _download_single_image.
FinallySucc(f) ==
    LET g == [f EXCEPT !.pc = "done",
                       !.outcomes = Append(@, IF f.ret = "true" THEN "ok"
                                               ELSE "convert_failed")]
    IN  IF Exists(f.temp) THEN {[g EXCEPT !.temp = Absent], g} ELSE {g}

DlNext(f, convert) ==
    CASE f.pc = "get" -> HttpGetSucc(f, convert)
      [] f.pc = "sleep" -> SleepSucc(f)
      [] f.pc = "open" -> OpenSucc(f)
      [] f.pc = "write" -> WriteSucc(f)
      [] f.pc = "size" -> SizeCheckSucc(f)
      [] f.pc = "temp_write" -> TempWriteSucc(f)
      [] f.pc = "decode" -> DecodeSucc(f)
      [] f.pc = "save" -> SaveSucc(f)
      [] f.pc = "saving" -> SavingSucc(f)
      [] f.pc = "remove_temp" -> RemoveTempSucc(f)
      [] f.pc = "fallback" -> FallbackSucc(f)
      [] f.pc = "fallback_write" -> FallbackWriteSucc(f)
      [] f.pc = "finally" -> FinallySucc(f)
      [] OTHER -> {}

(***************************************************************************)
(* The results one _download_single_image call on an absent file can have, *)
(* for the image loop of a run: every final record the step relation       *)
(* reaches, reduced to the return value, the kind of file left at          *)
(* file_path and whether the temp file is left.                            *)
(***************************************************************************)
Forget(f) ==
    [f EXCEPT !.outcomes = <<>>, !.sleeps = <<>>,
              !.wire = IF f.wire > 0 THEN 1 ELSE 0]

RECURSIVE DlReach(_, _, _)
DlReach(seen, frontier, convert) ==
    IF frontier = {}
    THEN seen
    ELSE LET all == seen \cup frontier
             next == UNION {{Forget(g) : g \in DlNext(f, convert)} : f \in frontier}
         IN  DlReach(all, next \ all, convert)

DlResult(f) ==
    [ret |-> f.ret = "true", kind |-> f.file.kind, temp |-> Exists(f.temp),
     requested |-> f.wire > 0]

DlResults ==
    [convert \in BOOLEAN |->
        {DlResult(f) : f \in {g \in DlReach({}, {DlStart(Absent)}, convert) :
                                g.pc = "done"}}]

(***************************************************************************)
(* Product names are sequences of characters.                              *)
(***************************************************************************)
Whitespace == {" "}

RECURSIVE lstrip(_)
lstrip(s) ==
    IF s # <<>> /\ Head(s) \in Whitespace THEN lstrip(Tail(s)) ELSE s

RECURSIVE rstrip(_)
rstrip(s) ==
    IF s # <<>> /\ s[Len(s)] \in Whitespace
    THEN rstrip(SubSeq(s, 1, Len(s) - 1))
    ELSE s

strip(s) == rstrip(lstrip(s))

\* DataExtractor._clean_filename: the replacements table.  The full-width
\* characters are written by their code points.
replacements ==
    [c \in {"<", ">", ":", "\"", "/", "\\", "|", "?", "*"} |->
        CASE c = "<" -> "U+FF1C"
          [] c = ">" -> "U+FF1E"
          [] c = ":" -> "U+FF1A"
          [] c = "\"" -> "\""
          [] c = "/" -> "U+FF0F"
          [] c = "\\" -> "U+FF3C"
          [] c = "|" -> "U+FF5C"
          [] c = "?" -> "U+FF1F"
          [] c = "*" -> "U+FF0A"]

\* An image URL: its host and the extension of its path; NoUrl is ''.
NoUrl == [host |-> "", ext |-> ""]

clean_filename(product_name, url, convert) ==
    LET clean_name ==
            [i \in 1..Len(product_name) |->
                IF product_name[i] \in DOMAIN replacements
                THEN replacements[product_name[i]]
                ELSE product_name[i]]
        ext == IF convert THEN ".jpg"
               ELSE IF url.ext # "" THEN url.ext ELSE ".jpg"
    IN  Append(clean_name, ext)

(***************************************************************************)
(* DataExtractor: feed entries to products.  An entry is a record holding  *)
(* the keys the feed gives for it; its key "null", when there is one, is   *)
(* the set of its keys whose value in the feed is the JSON null.  A        *)
(* picture descriptor that is null in the feed is JsonNull.                *)
(***************************************************************************)
Get(item, key, default) == IF key \in DOMAIN item THEN item[key] ELSE default

JsonNull == [null |-> TRUE]

\* item.get(key) returns None.
IsNone(item, key) == key \in Get(item, "null", {})

\* pic_vos[0].get(...) raises AttributeError when the first descriptor is
\* None.
ImageInfoRaises(item) ==
    LET pic_vos == Get(item, "wmProductPicVos", <<>>)
    IN  pic_vos # <<>> /\ pic_vos[1] = JsonNull

\* An extract_image_info that asks for the standard URL first.
extract_image_info_standard_first(item, convert) ==
    LET pic_vos == Get(item, "wmProductPicVos", <<>>)
        none == [url |-> NoUrl, filename |-> <<>>]
    IN  IF pic_vos = <<>>
        THEN none
        ELSE LET standard == Get(pic_vos[1], "picUrl", NoUrl)
                 pic_url == IF standard # NoUrl THEN standard
                            ELSE Get(pic_vos[1], "picLargeUrl", NoUrl)
             IN  IF pic_url # NoUrl
                 THEN [url |-> pic_url,
                       filename |-> clean_filename(Get(item, "name", <<"unknown">>),
                                                   pic_url, convert)]
                 ELSE none

extract_image_info(item, convert) ==
    LET pic_vos == Get(item, "wmProductPicVos", <<>>)
        none == [url |-> NoUrl, filename |-> <<>>]
    IN  IF pic_vos = <<>>
        THEN none
        ELSE LET large == Get(pic_vos[1], "picLargeUrl", NoUrl)
                 pic_url == IF large # NoUrl THEN large
                            ELSE Get(pic_vos[1], "picUrl", NoUrl)
             IN  IF pic_url # NoUrl
                 THEN [url |-> pic_url,
                       filename |-> clean_filename(Get(item, "name", <<"unknown">>),
                                                   pic_url, convert)]
                 ELSE none

\* What makes _extract_single_product end in its except clause: None.strip(),
\* the descriptor that is None, None > 0.
Raises(item) ==
    \/ IsNone(item, "name")
    \/ ImageInfoRaises(item)
    \/ IsNone(item, "discountPrice")

\* An _extract_single_product that keeps a discountPrice of zero.
extract_single_product_zero_kept(item, convert) ==
    LET name == strip(Get(item, "name", <<>>))
        price == Get(item, "price", 0)
        discount_price == Get(item, "discountPrice", -1)
        pic_info == extract_image_info(item, convert)
    IN  IF Raises(item) \/ name = <<>>
        THEN <<>>
        ELSE <<[name |-> name,
                price |-> price,
                discount_price |-> IF discount_price >= 0 THEN discount_price ELSE price,
                month_sale |-> Get(item, "monthSale", 0),
                image_url |-> pic_info.url,
                image_filename |-> pic_info.filename]>>

\* _extract_single_product; <<>> stands for the None of a skipped entry,
\* returned for an empty name and by the except clause.
extract_single_product(item, convert) ==
    LET name == strip(Get(item, "name", <<>>))
        price == Get(item, "price", 0)
        discount_price == Get(item, "discountPrice", -1)
        pic_info == extract_image_info(item, convert)
    IN  IF Raises(item) \/ name = <<>>
        THEN <<>>
        ELSE <<[name |-> name,
                price |-> price,
                discount_price |-> IF discount_price > 0 THEN discount_price ELSE price,
                month_sale |-> Get(item, "monthSale", 0),
                image_url |-> pic_info.url,
                image_filename |-> pic_info.filename]>>

\* An extract_products whose loop ends at the first entry that is skipped.
RECURSIVE extract_products_until_skip(_, _)
extract_products_until_skip(spu_list, convert) ==
    IF spu_list = <<>>
    THEN <<>>
    ELSE LET product == extract_single_product(Head(spu_list), convert)
         IN  IF product = <<>>
             THEN <<>>
             ELSE product \o extract_products_until_skip(Tail(spu_list), convert)

RECURSIVE extract_products(_, _)
extract_products(spu_list, convert) ==
    IF spu_list = <<>>
    THEN <<>>
    ELSE extract_single_product(Head(spu_list), convert)
            \o extract_products(Tail(spu_list), convert)

(***************************************************************************)
(* ExcelManager.  The catalog file holds rows of cells; a DataFrame holds  *)
(* rows of values.  pd.read_excel is called with its defaults, so a text   *)
(* cell that is one of pandas' default NA strings ('', 'NA', ...) is read  *)
(* as NaN, and to_excel writes NaN as an empty cell.                       *)
(***************************************************************************)
NaN == <<"nan">>
DefaultNaValues == {<<>>, <<"N", "A">>}

read_cell(c) == IF c \in DefaultNaValues THEN NaN ELSE c
write_cell(v) == IF v = NaN THEN <<>> ELSE v

\* existing_df['商品名称'] raises KeyError when the frame has no such column.
HasNameColumn(df) == \A i \in 1..Len(df) : "name" \in DOMAIN df[i]

read_excel(rows) ==
    [i \in 1..Len(rows) |->
        IF "name" \in DOMAIN rows[i]
        THEN [rows[i] EXCEPT !.name = read_cell(@),
                             !.image_filename = read_cell(@)]
        ELSE [c \in DOMAIN rows[i] |-> read_cell(rows[i][c])]]

to_excel(df) ==
    [exists |-> TRUE,
     rows |-> [i \in 1..Len(df) |->
                [df[i] EXCEPT !.name = write_cell(@),
                              !.image_filename = write_cell(@)]]]

NoCatalog == [exists |-> FALSE, rows |-> <<>>]

\* A workbook at the catalog's path that this program did not write: one row
\* under a column of another name.
ForeignCatalog == [exists |-> TRUE, rows |-> <<[title |-> <<"a">>]>>]

\* load_existing_data: the rows read, or an empty DataFrame when the file does
\* not exist or reading it raises.
load_existing_data(file, readOk) ==
    IF file.exists /\ readOk THEN read_excel(file.rows) ELSE <<>>

Names(df) == {df[i].name : i \in 1..Len(df)}

\* The loop over products of save_products_to_excel.
RECURSIVE new_data(_, _, _)
new_data(prods, existing_names, current_time) ==
    IF prods = <<>>
    THEN <<>>
    ELSE LET product == Head(prods)
             rest == new_data(Tail(prods), existing_names, current_time)
         IN  IF product.name \notin existing_names
             THEN <<[name |-> product.name,
                     price |-> product.price,
                     discount_price |-> product.discount_price,
                     month_sale |-> product.month_sale,
                     image_url |-> product.image_url,
                     image_filename |-> product.image_filename,
                     last_updated |-> current_time]>> \o rest
             ELSE rest

NoSave == [called |-> FALSE, loadFailed |-> FALSE, loaded |-> <<>>,
           appended |-> 0, wrote |-> FALSE, error |-> FALSE]

\* save_products_to_excel: the file afterwards, and what was loaded and written.
save_products_to_excel(prods, file, readOk, writeOk, current_time) ==
    LET existing_df == load_existing_data(file, readOk)
        existing_names == Names(existing_df)
        new_df == new_data(prods, existing_names, current_time)
        log == [called |-> TRUE, loadFailed |-> file.exists /\ ~readOk,
                loaded |-> existing_df, appended |-> 0, wrote |-> FALSE,
                error |-> FALSE]
    IN  IF existing_df # <<>> /\ ~HasNameColumn(existing_df)
        THEN [file |-> file, log |-> [log EXCEPT !.error = TRUE]]
        ELSE IF new_df = <<>>
        THEN [file |-> file, log |-> log]
        ELSE IF writeOk
        THEN [file |-> to_excel(existing_df \o new_df),
              log |-> [log EXCEPT !.appended = Len(new_df), !.wrote = TRUE]]
        ELSE [file |-> file, log |-> [log EXCEPT !.error = TRUE]]

(***************************************************************************)
(* SpecFetch: one product of the image loop whose file does not exist yet  *)
(* (GUIProcessor.download_images_with_progress, the loop body).            *)
(***************************************************************************)
HttpGet ==
    /\ dl.pc = "get"
    /\ dl' \in HttpGetSucc(dl, convertToJpg)
    /\ UNCHANGED <<ctlVars, should_stop, errorLogs, convertToJpg, counters, fsVars, runVars, logVars>>

Sleep ==
    /\ dl.pc = "sleep"
    /\ dl' \in SleepSucc(dl)
    /\ UNCHANGED <<ctlVars, should_stop, errorLogs, convertToJpg, counters, fsVars, runVars, logVars>>

OpenTarget ==
    /\ dl.pc = "open"
    /\ dl' \in OpenSucc(dl)
    /\ UNCHANGED <<ctlVars, should_stop, errorLogs, convertToJpg, counters, fsVars, runVars, logVars>>

WriteTarget ==
    /\ dl.pc = "write"
    /\ dl' \in WriteSucc(dl)
    /\ UNCHANGED <<ctlVars, should_stop, errorLogs, convertToJpg, counters, fsVars, runVars, logVars>>

SizeCheck ==
    /\ dl.pc = "size"
    /\ dl' \in SizeCheckSucc(dl)
    /\ UNCHANGED <<ctlVars, should_stop, errorLogs, convertToJpg, counters, fsVars, runVars, logVars>>

TempWrite ==
    /\ dl.pc = "temp_write"
    /\ dl' \in TempWriteSucc(dl)
    /\ UNCHANGED <<ctlVars, should_stop, errorLogs, convertToJpg, counters, fsVars, runVars, logVars>>

Decode ==
    /\ dl.pc = "decode"
    /\ dl' \in DecodeSucc(dl)
    /\ UNCHANGED <<ctlVars, should_stop, errorLogs, convertToJpg, counters, fsVars, runVars, logVars>>

Save ==
    /\ dl.pc = "save"
    /\ dl' \in SaveSucc(dl)
    /\ UNCHANGED <<ctlVars, should_stop, errorLogs, convertToJpg, counters, fsVars, runVars, logVars>>

Saving ==
    /\ dl.pc = "saving"
    /\ dl' \in SavingSucc(dl)
    /\ UNCHANGED <<ctlVars, should_stop, errorLogs, convertToJpg, counters, fsVars, runVars, logVars>>

RemoveTemp ==
    /\ dl.pc = "remove_temp"
    /\ dl' \in RemoveTempSucc(dl)
    /\ UNCHANGED <<ctlVars, should_stop, errorLogs, convertToJpg, counters, fsVars, runVars, logVars>>

Fallback ==
    /\ dl.pc = "fallback"
    /\ dl' \in FallbackSucc(dl)
    /\ UNCHANGED <<ctlVars, should_stop, errorLogs, convertToJpg, counters, fsVars, runVars, logVars>>

FallbackWrite ==
    /\ dl.pc = "fallback_write"
    /\ dl' \in FallbackWriteSucc(dl)
    /\ UNCHANGED <<ctlVars, should_stop, errorLogs, convertToJpg, counters, fsVars, runVars, logVars>>

Finally ==
    /\ dl.pc = "finally"
    /\ dl' \in FinallySucc(dl)
    /\ UNCHANGED <<ctlVars, should_stop, errorLogs, convertToJpg, counters, fsVars, runVars, logVars>>

\* if self._download_single_image_gui(...): downloaded_count += 1
\* else: failed_count += 1
CountResult ==
    /\ dl.pc = "done"
    /\ dl' = [dl EXCEPT !.pc = "counted"]
    /\ downloaded' = IF dl.ret = "true" THEN downloaded + 1 ELSE downloaded
    /\ failed' = IF dl.ret = "true" THEN failed ELSE failed + 1
    /\ UNCHANGED <<ctlVars, should_stop, errorLogs, convertToJpg, skipped, fsVars, runVars, logVars>>


(***************************************************************************)
(* The window and the file monitor before anything is started.             *)
(*   win      FluentMainWindow: is_monitoring, the pending                 *)
(*            QTimer.singleShot calls (the times they are due, in order),  *)
(*            processor_thread (the id of the latest ProcessorThread, 0    *)
(*            for None), whether start_btn and stop_btn are enabled, the   *)
(*            finished_signal emissions not yet delivered to the window,   *)
(*            and whether the window is inside processor_thread.wait()     *)
(*   monitor  FileMonitorHandler: last_modified, where on_modified is,     *)
(*            when its time.sleep ends, what the input file was when it    *)
(*            called process_file, the events the observer holds back      *)
(*            while on_modified has not returned, and whether the event    *)
(*            being handled was one of those; discardedAt is the time of   *)
(*            the latest event on_modified returned early for              *)
(***************************************************************************)
WinIdle ==
    [is_monitoring |-> FALSE, timers |-> <<>>, processor_thread |-> 0,
     start_btn |-> TRUE, stop_btn |-> FALSE, finished |-> 0, waiting |-> FALSE]

MonitorIdle ==
    [last_modified |-> 0, pc |-> "idle", wake |-> 0, calls |-> 0,
     fileAtCall |-> "none", queued |-> 0, wasQueued |-> FALSE,
     discardedAt |-> 0]

(***************************************************************************)
(* The feeds, and the initial state of a run.                              *)
(***************************************************************************)
MaxRuns == 2

UrlA == [host |-> "img.meituan.net", ext |-> ".png"]
UrlB == [host |-> "p0.meituan.net", ext |-> ""]

EntryA ==
    [name |-> <<"a", "/">>, price |-> 20, discountPrice |-> -1, monthSale |-> 5,
     wmProductPicVos |-> <<[picLargeUrl |-> UrlA, picUrl |-> UrlB]>>]
EntryB ==
    [name |-> <<" ", "b">>, price |-> 15, discountPrice |-> 12,
     wmProductPicVos |-> <<[picUrl |-> UrlB]>>]
EntryA2 == [name |-> <<"a", "/">>, price |-> 30, monthSale |-> 1]
EntryNA == [name |-> <<"N", "A">>, price |-> 8, discountPrice |-> 0]
EntryBlank == [name |-> <<" ">>, price |-> 3]

Entries == {EntryA, EntryB, EntryA2, EntryNA, EntryBlank}

FeedMissing == [status |-> "missing", entries |-> <<>>]
FeedMalformed == [status |-> "malformed", entries |-> <<>>]
FeedOf(entries) == [status |-> "ok", entries |-> entries]

Feeds ==
    {FeedMissing, FeedMalformed, FeedOf(<<EntryBlank>>), FeedOf(<<EntryA>>),
     FeedOf(<<EntryA, EntryB>>), FeedOf(<<EntryA, EntryA2>>), FeedOf(<<EntryNA>>)}

FileNames ==
    {extract_image_info(e, c).filename : e \in Entries, c \in BOOLEAN} \ {<<>>}

\* A file of the image directory: what it holds and the run that wrote it.
NoImage == [kind |-> "absent", by |-> 0]

NoResults ==
    [total_products |-> 0, new_products |-> 0, downloaded_images |-> 0,
     skipped_images |-> 0, failed_images |-> 0]

NoRun == [data |-> <<>>, done |-> FALSE, failed |-> 0, saveError |-> FALSE]

Snapshot(c, i, d, t) == [catalog |-> c, images |-> i, imagesDir |-> d, temps |-> t]

\* A loop that takes no product to have a picture.
NoImages(product) == FALSE

HasImage(product) == product.image_url # NoUrl /\ product.image_filename # <<>>

\* The state before the first run, for the feed files and the catalog files
\* given.
InitOn(feeds, catalogs) ==
    /\ convertToJpg \in BOOLEAN
    /\ dl = DlIdle
    /\ downloaded = 0
    /\ skipped = 0
    /\ failed = 0
    /\ feed \in feeds
    /\ catalog \in catalogs
    /\ imagesDir = FALSE
    /\ images = [fn \in FileNames |-> NoImage]
    /\ temps = {}
    /\ clock = 0
    /\ pc = "idle"
    /\ data = <<>>
    /\ products = <<>>
    /\ new_products = 0
    /\ idx = 0
    /\ current_step = 0
    /\ results = NoResults
    /\ atStart = Snapshot(catalog, [fn \in FileNames |-> NoImage], FALSE, {})
    /\ saveLog = NoSave
    /\ imgLog = <<>>
    /\ lastRun = NoRun
    /\ should_stop = FALSE
    /\ errorLogs = 0
    /\ win = WinIdle
    /\ threads = {}
    /\ now = 0
    /\ monitor = MonitorIdle

Init == InitOn(Feeds, {NoCatalog, ForeignCatalog})

(***************************************************************************)
(* The environment rewrites or deletes the feed file.                      *)
(***************************************************************************)
FeedWritten ==
    /\ pc \in {"idle", "started", "parse"}
    /\ feed' \in Feeds \ {feed}
    /\ UNCHANGED <<ctlVars, should_stop, errorLogs, convertToJpg, dl, counters, catalog, imagesDir, images, temps,
                   runVars, logVars>>

(***************************************************************************)
(* FluentMainWindow.start_processing / auto_reprocess: a ProcessorThread   *)
(* is started on an input file that exists.                                *)
(***************************************************************************)
ThreadStart ==
    /\ pc = "idle"
    /\ clock < MaxRuns
    /\ feed.status # "missing"
    /\ pc' = "started"
    /\ clock' = clock + 1
    /\ atStart' = Snapshot(catalog, images, imagesDir, temps)
    /\ should_stop' = FALSE
    /\ UNCHANGED <<ctlVars, errorLogs, convertToJpg, dl, counters, fsVars, data, products,
                   new_products, idx, current_step, results, saveLog, imgLog, lastRun>>

\* ProcessorThread.stop, called by stop_processing while the run is in
\* progress: the flag is set and nothing else happens.
ThreadStop ==
    /\ pc # "idle"
    /\ ~should_stop
    /\ should_stop' = TRUE
    /\ UNCHANGED <<ctlVars, errorLogs, convertToJpg, dl, counters, fsVars, runVars,
                   logVars>>

\* The messages of level ERROR a run hands to log_signal: one by the handler
\* of process_file before it raises again, two by the handler of
\* ProcessorThread.run, one for an input file that is not there.
ProcessFileErrors == 1
RunErrors == 2
MissingInputErrors == 1

(***************************************************************************)
(* ProcessorThread.run up to the call of process_file: the input file is   *)
(* checked and the directory "images" is made if it does not exist.  An    *)
(* exception ends the run in the outer handler.                            *)
(***************************************************************************)
ThreadRunBegin ==
    /\ pc = "started"
    /\ IF feed.status = "missing"
       THEN /\ pc' = "returned"
            /\ errorLogs' = MissingInputErrors
            /\ UNCHANGED imagesDir
       ELSE \E ok \in IF imagesDir THEN {TRUE} ELSE BOOLEAN :
                /\ imagesDir' = (imagesDir \/ ok)
                /\ pc' = IF ok THEN "parse" ELSE "failed"
                /\ errorLogs' = IF ok THEN errorLogs ELSE RunErrors
    /\ UNCHANGED <<ctlVars, should_stop, convertToJpg, dl, counters, feed, catalog, images, temps,
                   clock, data, products, new_products, idx, current_step, results, logVars>>

(***************************************************************************)
(* GUIProcessor.process_file, stage by stage.                              *)
(***************************************************************************)
\* self.total_steps = 6
total_steps == 6

\* update_progress: progress = int((self.current_step / self.total_steps) * 100),
\* the value last handed to progress_callback.
progress == (current_step * 100) \div total_steps

\* The value update_progress hands over for stage k.
ProgressOf(k) == (k * 100) \div total_steps

\* The stages of process_file in the order of the code, by the position of
\* the run before each of them.
Stages == <<"parse", "extract", "load", "save", "makedirs", "download">>

\* data = parse_json_file(input_file); if not data: raise
StageParse ==
    /\ pc = "parse"
    /\ IF feed.status = "ok"
       THEN /\ data' = feed.entries
            /\ pc' = "extract"
       ELSE /\ pc' = "failed"
            /\ UNCHANGED data
    /\ errorLogs' = IF pc' = "failed" THEN ProcessFileErrors + RunErrors
                    ELSE errorLogs
    /\ current_step' = 1
    /\ UNCHANGED <<ctlVars, should_stop, convertToJpg, dl, counters, fsVars, clock, products,
                   new_products, idx, results, logVars>>

\* products = extract_products(data); if not products: raise
StageExtract ==
    /\ pc = "extract"
    /\ products' = extract_products(data, convertToJpg)
    /\ pc' = IF products' = <<>> THEN "failed" ELSE "load"
    /\ current_step' = 2
    /\ errorLogs' = IF pc' = "failed" THEN ProcessFileErrors + RunErrors
                    ELSE errorLogs
    /\ UNCHANGED <<ctlVars, should_stop, convertToJpg, dl, counters, fsVars, clock, data,
                   new_products, idx, results, logVars>>

\* Whether reading the catalog file succeeds; a file that is not there is
\* not read.
ReadOutcomes(file) == IF file.exists THEN BOOLEAN ELSE {TRUE}

\* existing_df = load_existing_data(output_excel);
\* existing_names = set(existing_df['商品名称'].tolist()) if not
\* existing_df.empty else set(); new_products = [...]
StageLoad ==
    /\ pc = "load"
    /\ \E readOk \in ReadOutcomes(catalog) :
        LET existing_df == load_existing_data(catalog, readOk)
        IN  IF existing_df # <<>> /\ ~HasNameColumn(existing_df)
            THEN /\ pc' = "failed"
                 /\ UNCHANGED new_products
            ELSE /\ new_products' =
                        Cardinality({i \in 1..Len(products) :
                                        products[i].name \notin Names(existing_df)})
                 /\ pc' = "save"
    /\ errorLogs' = IF pc' = "failed" THEN ProcessFileErrors + RunErrors
                    ELSE errorLogs
    /\ current_step' = 3
    /\ UNCHANGED <<ctlVars, should_stop, convertToJpg, dl, counters, fsVars, clock, data, products,
                   idx, results, logVars>>

\* self.excel_manager.save_products_to_excel(products, output_excel)
StageSave ==
    /\ pc = "save"
    /\ \E readOk \in ReadOutcomes(catalog), writeOk \in BOOLEAN :
        LET r == save_products_to_excel(products, catalog, readOk, writeOk, clock)
        IN  /\ catalog' = r.file
            /\ saveLog' = r.log
    /\ pc' = "makedirs"
    /\ current_step' = 4
    /\ UNCHANGED <<ctlVars, should_stop, errorLogs, convertToJpg, dl, counters, feed, imagesDir, images, temps,
                   clock, data, products, new_products, idx, results,
                   atStart, imgLog, lastRun>>

\* os.makedirs(images_dir, exist_ok=True)
StageMakeDirs ==
    /\ pc = "makedirs"
    /\ \E ok \in IF imagesDir THEN {TRUE} ELSE BOOLEAN :
        /\ imagesDir' = (imagesDir \/ ok)
        /\ pc' = IF ok THEN "download" ELSE "failed"
    /\ current_step' = 5
    /\ errorLogs' = IF pc' = "failed" THEN ProcessFileErrors + RunErrors
                    ELSE errorLogs
    /\ UNCHANGED <<ctlVars, should_stop, convertToJpg, dl, counters, feed, catalog, images, temps,
                   clock, data, products, new_products, idx, results, logVars>>

\* download_results = self.download_images_with_progress(products, images_dir)
StageDownload ==
    /\ pc = "download"
    /\ current_step' = 6
    /\ idx' = 1
    /\ pc' = "images"
    /\ UNCHANGED <<ctlVars, should_stop, errorLogs, convertToJpg, dl, counters, fsVars, clock, data, products,
                   new_products, results, logVars>>

(***************************************************************************)
(* download_images_with_progress: one product of the loop at a time.       *)
(***************************************************************************)
InImageLoop == pc = "images" /\ idx <= Len(products)

\* A loop that takes every file to be missing, so that it fetches again what
\* is already there.
NeverThere(file) == FALSE

\* os.path.exists(file_path)
AlreadyThere(file) == Exists(file)

LogImage(fn, action, requested) ==
    Append(imgLog, [filename |-> fn, before |-> images[fn], action |-> action,
                    requested |-> requested])

\* if not product['image_url'] or not product['image_filename']: continue
ImageNone ==
    /\ InImageLoop
    /\ ~HasImage(products[idx])
    /\ idx' = idx + 1
    /\ UNCHANGED <<ctlVars, should_stop, errorLogs, convertToJpg, dl, counters, fsVars, clock, pc, data, products,
                   new_products, current_step, results, logVars>>

\* if os.path.exists(file_path): skipped_count += 1; continue
ImageSkip ==
    /\ InImageLoop
    /\ HasImage(products[idx])
    /\ LET fn == products[idx].image_filename
       IN  /\ AlreadyThere(images[fn])
           /\ imgLog' = LogImage(fn, "skipped", FALSE)
    /\ skipped' = skipped + 1
    /\ idx' = idx + 1
    /\ UNCHANGED <<ctlVars, should_stop, errorLogs, convertToJpg, dl, downloaded, failed, fsVars, clock, pc, data,
                   products, new_products, current_step, results, atStart,
                   saveLog, lastRun>>

\* if self._download_single_image_gui(url, file_path, name): downloaded_count += 1
\* else: failed_count += 1
ImageDownload ==
    /\ InImageLoop
    /\ HasImage(products[idx])
    /\ LET fn == products[idx].image_filename
       IN  /\ ~AlreadyThere(images[fn])
           /\ \E r \in DlResults[convertToJpg] :
                /\ images' = [images EXCEPT ![fn] =
                                IF r.kind = "absent" THEN NoImage
                                ELSE [kind |-> r.kind, by |-> clock]]
                /\ temps' = IF r.temp THEN temps \cup {fn} ELSE temps \ {fn}
                /\ downloaded' = IF r.ret THEN downloaded + 1 ELSE downloaded
                /\ failed' = IF r.ret THEN failed ELSE failed + 1
                /\ imgLog' = LogImage(fn, IF r.ret THEN "downloaded" ELSE "failed",
                                            r.requested)
    /\ idx' = idx + 1
    /\ UNCHANGED <<ctlVars, should_stop, errorLogs, convertToJpg, dl, skipped, feed, catalog, imagesDir, clock, pc,
                   data, products, new_products, current_step, results, atStart,
                   saveLog, lastRun>>

\* The loop has ended: process_file builds results and returns them, and
\* ProcessorThread.run emits finished_signal.
ImagesDone ==
    /\ pc = "images"
    /\ idx > Len(products)
    /\ results' = [total_products |-> Len(products),
                   new_products |-> new_products,
                   downloaded_images |-> downloaded,
                   skipped_images |-> skipped,
                   failed_images |-> failed]
    /\ pc' = "finished"
    /\ UNCHANGED <<ctlVars, should_stop, errorLogs, convertToJpg, dl, counters, fsVars, clock, data, products,
                   new_products, idx, current_step, logVars>>

\* The thread ends: after finished_signal, after the outer handler logged an
\* exception, or after the return for a missing input file.
ThreadExit ==
    /\ pc \in {"finished", "failed", "returned"}
    /\ lastRun' = [data |-> data, done |-> pc = "finished", failed |-> failed,
                   saveError |-> saveLog.error]
    /\ pc' = "idle"
    /\ data' = <<>>
    /\ products' = <<>>
    /\ new_products' = 0
    /\ idx' = 0
    /\ current_step' = 0
    /\ results' = NoResults
    /\ downloaded' = 0
    /\ skipped' = 0
    /\ failed' = 0
    /\ saveLog' = NoSave
    /\ imgLog' = <<>>
    /\ atStart' = Snapshot(catalog, images, imagesDir, temps)
    /\ errorLogs' = 0
    /\ UNCHANGED <<ctlVars, should_stop, convertToJpg, dl, fsVars, clock>>

Next ==
    \/ FeedWritten
    \/ ThreadStart
    \/ ThreadStop
    \/ ThreadRunBegin
    \/ StageParse
    \/ StageExtract
    \/ StageLoad
    \/ StageSave
    \/ StageMakeDirs
    \/ StageDownload
    \/ ImageNone
    \/ ImageSkip
    \/ ImageDownload
    \/ ImagesDone
    \/ ThreadExit

Spec == Init /\ [][Next]_vars

(***************************************************************************)
(* SpecFetch: initial state and next-state relation.                       *)
(***************************************************************************)
InitFetch ==
    /\ convertToJpg \in BOOLEAN
    /\ dl = DlStart(Absent)
    /\ downloaded = 0
    /\ skipped = 0
    /\ failed = 0
    /\ feed = FeedOf(<<EntryA>>)
    /\ catalog = NoCatalog
    /\ imagesDir = TRUE
    /\ images = [fn \in FileNames |-> NoImage]
    /\ temps = {}
    /\ clock = 1
    /\ pc = "images"
    /\ data = feed.entries
    /\ products = extract_products(data, convertToJpg)
    /\ new_products = 1
    /\ idx = 1
    /\ current_step = 6
    /\ results = NoResults
    /\ atStart = Snapshot(NoCatalog, [fn \in FileNames |-> NoImage], FALSE, {})
    /\ saveLog = NoSave
    /\ imgLog = <<>>
    /\ lastRun = NoRun
    /\ should_stop = FALSE
    /\ errorLogs = 0
    /\ win = WinIdle
    /\ threads = {}
    /\ now = 0
    /\ monitor = MonitorIdle

NextFetch ==
    \/ HttpGet
    \/ Sleep
    \/ OpenTarget
    \/ WriteTarget
    \/ SizeCheck
    \/ TempWrite
    \/ Decode
    \/ Save
    \/ Saving
    \/ RemoveTemp
    \/ Fallback
    \/ FallbackWrite
    \/ Finally
    \/ CountResult

SpecFetch == InitFetch /\ [][NextFetch]_vars

(***************************************************************************)
(* SpecWatch: FluentMainWindow starting ProcessorThreads, by the start     *)
(* button and by the file watcher.  What a thread does is left out here:   *)
(* it is started, and at some time its run() returns, having emitted       *)
(* finished_signal or not.  clock counts the threads started and gives     *)
(* each its id.                                                            *)
(***************************************************************************)
MaxThreads == 3
MaxTimers == 2
MaxTime == 4

\* QTimer.singleShot(2000, ...), in seconds
SettleDelay == 2

WatchedFeeds == {FeedMissing, FeedOf(<<EntryA>>)}

pipelineVars ==
    <<convertToJpg, dl, counters, catalog, imagesDir, images, temps, pc, data,
      products, new_products, idx, current_step, results, logVars, should_stop,
      errorLogs>>

\* self.processor_thread.isRunning()
IsRunning(id) == \E t \in threads : t.id = id

\* The window's event loop takes up a click, a fileChanged signal or a timer:
\* it is not blocked in wait(), and the finished_signal emissions posted
\* before have been delivered.
WinReady == ~win.waiting /\ win.finished = 0

InitWatch ==
    /\ Init
    /\ convertToJpg
    /\ feed \in WatchedFeeds
    /\ catalog = NoCatalog

\* start_processing: the click on start_btn.  No check is made of a thread
\* that may be running.
StartProcessing ==
    /\ WinReady
    /\ win.start_btn
    /\ clock < MaxThreads
    /\ feed.status # "missing"
    /\ clock' = clock + 1
    /\ threads' = threads \cup {[id |-> clock + 1, auto |-> FALSE]}
    /\ win' = [win EXCEPT !.processor_thread = clock + 1, !.is_monitoring = TRUE,
                          !.start_btn = FALSE, !.stop_btn = TRUE]
    /\ UNCHANGED <<pipelineVars, feed, now, monitor>>

\* The watched file is written or removed and QFileSystemWatcher emits
\* fileChanged: on_file_changed.  Nothing is done when not monitoring.
OnFileChanged ==
    /\ WinReady
    /\ win.is_monitoring
    /\ Len(win.timers) < MaxTimers
    /\ feed' \in WatchedFeeds
    /\ win' = [win EXCEPT !.timers = Append(@, now + SettleDelay)]
    /\ UNCHANGED <<pipelineVars, clock, threads, now, monitor>>

\* A single-shot timer fires: auto_reprocess.
AutoReprocess ==
    /\ WinReady
    /\ win.timers # <<>>
    /\ Head(win.timers) <= now
    /\ IF ~win.is_monitoring \/ feed.status = "missing"
            \/ IsRunning(win.processor_thread)
       THEN /\ win' = [win EXCEPT !.timers = Tail(@)]
            /\ UNCHANGED <<clock, threads>>
       ELSE /\ clock < MaxThreads
            /\ clock' = clock + 1
            /\ threads' = threads \cup {[id |-> clock + 1, auto |-> TRUE]}
            /\ win' = [win EXCEPT !.timers = Tail(@),
                                  !.processor_thread = clock + 1]
    /\ UNCHANGED <<pipelineVars, feed, now, monitor>>

\* run() of a thread returns.  A run without exception has emitted
\* finished_signal, which start_processing connected to
\* on_processing_finished; the emission waits for the window's event loop.
ThreadReturns ==
    /\ \E t \in threads, ok \in BOOLEAN :
        /\ threads' = threads \ {t}
        /\ win' = IF ok /\ ~t.auto THEN [win EXCEPT !.finished = @ + 1] ELSE win
    /\ UNCHANGED <<pipelineVars, feed, clock, now, monitor>>

\* on_processing_finished
OnProcessingFinished ==
    /\ ~win.waiting
    /\ win.finished > 0
    /\ win' = [win EXCEPT !.finished = @ - 1, !.start_btn = TRUE,
                          !.stop_btn = TRUE]
    /\ UNCHANGED <<pipelineVars, feed, clock, threads, now, monitor>>

\* stop_processing: the click on stop_btn, up to processor_thread.wait()
StopProcessing ==
    /\ WinReady
    /\ win.stop_btn
    /\ win' = [win EXCEPT !.waiting = TRUE]
    /\ UNCHANGED <<pipelineVars, feed, clock, threads, now, monitor>>

\* wait() returns when the thread's run() has returned; stop_file_monitoring
StopReturns ==
    /\ win.waiting
    /\ ~IsRunning(win.processor_thread)
    /\ win' = [win EXCEPT !.waiting = FALSE, !.is_monitoring = FALSE,
                          !.start_btn = TRUE, !.stop_btn = FALSE]
    /\ UNCHANGED <<pipelineVars, feed, clock, threads, now, monitor>>

\* A second passes.  A timer that is due fires first, unless the window is
\* blocked in wait().
WatchTick ==
    /\ now < MaxTime
    /\ IF win.waiting \/ win.timers = <<>> THEN TRUE ELSE Head(win.timers) > now
    /\ now' = now + 1
    /\ UNCHANGED <<pipelineVars, feed, clock, threads, win, monitor>>

NextWatch ==
    \/ StartProcessing
    \/ OnFileChanged
    \/ AutoReprocess
    \/ ThreadReturns
    \/ OnProcessingFinished
    \/ StopProcessing
    \/ StopReturns
    \/ WatchTick

SpecWatch == InitWatch /\ [][NextWatch]_vars

(***************************************************************************)
(* SpecMonitor: the command-line monitor.  The watchdog observer calls     *)
(* FileMonitorHandler.on_modified for one event at a time, and the handler *)
(* calls MalatangProcessor.process_file itself; what process_file does is  *)
(* left out here.                                                          *)
(***************************************************************************)
\* time.time() when the monitor is started, in seconds since 1970: far more
\* than the window, so that the first event is never within the window of
\* last_modified = 0.
StartTime == 100

\* if current_time - self.last_modified < 2
DebounceWindow == 2

\* time.sleep(1)
WriteDelay == 1

\* Events the observer holds back at most.
MaxHeld == 1

time == StartTime + now

MonitoredFeeds == {FeedOf(<<EntryA>>), FeedOf(<<EntryA, EntryB>>)}

InitMonitor ==
    /\ Init
    /\ convertToJpg
    /\ feed \in MonitoredFeeds
    /\ catalog = NoCatalog

\* An on_modified that sets last_modified before it compares, so that every
\* event moves the window.
AcceptSliding(m, queued) ==
    IF time - m.last_modified < DebounceWindow
    THEN [m EXCEPT !.last_modified = time, !.discardedAt = time]
    ELSE [m EXCEPT !.last_modified = time, !.pc = "settling",
                   !.wake = now + WriteDelay, !.wasQueued = queued]

\* if current_time - self.last_modified < 2: return; else the event is
\* accepted and time.sleep(1) begins.
Accept(m, queued) ==
    IF time - m.last_modified < DebounceWindow
    THEN [m EXCEPT !.discardedAt = time]
    ELSE [m EXCEPT !.last_modified = time, !.pc = "settling",
                   !.wake = now + WriteDelay, !.wasQueued = queued]

\* The input file is written and on_modified is called for the event.
OnModified ==
    /\ monitor.pc = "idle"
    /\ monitor.queued = 0
    /\ feed.status = "ok"
    /\ feed' \in MonitoredFeeds
    /\ monitor' = Accept(monitor, FALSE)
    /\ UNCHANGED <<pipelineVars, clock, threads, win, now>>

\* The input file is written while on_modified has not returned: the
\* observer keeps the event until the handler is free.
EventHeldBack ==
    /\ monitor.pc # "idle"
    /\ monitor.queued < MaxHeld
    /\ feed.status = "ok"
    /\ feed' \in MonitoredFeeds
    /\ monitor' = [monitor EXCEPT !.queued = @ + 1]
    /\ UNCHANGED <<pipelineVars, clock, threads, win, now>>

\* on_modified is called for an event that was held back.
OnModifiedLate ==
    /\ monitor.pc = "idle"
    /\ monitor.queued > 0
    /\ monitor' = Accept([monitor EXCEPT !.queued = @ - 1], TRUE)
    /\ UNCHANGED <<pipelineVars, feed, clock, threads, win, now>>

\* The input file is removed or written again by its owner.
InputRemoved ==
    /\ feed.status = "ok"
    /\ feed' = FeedMissing
    /\ UNCHANGED <<pipelineVars, clock, threads, win, now, monitor>>

InputCreated ==
    /\ feed.status = "missing"
    /\ feed' \in MonitoredFeeds
    /\ UNCHANGED <<pipelineVars, clock, threads, win, now, monitor>>

\* time.sleep(1) returns: self.processor.process_file()
ProcessFileCalled ==
    /\ monitor.pc = "settling"
    /\ now >= monitor.wake
    /\ monitor' = [monitor EXCEPT !.pc = "processing", !.calls = @ + 1,
                                  !.fileAtCall = feed.status]
    /\ UNCHANGED <<pipelineVars, feed, clock, threads, win, now>>

\* process_file returns, and with it on_modified.
ProcessFileReturned ==
    /\ monitor.pc = "processing"
    /\ monitor' = [monitor EXCEPT !.pc = "idle"]
    /\ UNCHANGED <<pipelineVars, feed, clock, threads, win, now>>

\* A second passes.
MonitorTick ==
    /\ now < MaxTime
    /\ monitor.pc = "settling" => now < monitor.wake
    /\ now' = now + 1
    /\ UNCHANGED <<pipelineVars, feed, clock, threads, win, monitor>>

NextMonitor ==
    \/ OnModified
    \/ EventHeldBack
    \/ OnModifiedLate
    \/ InputRemoved
    \/ InputCreated
    \/ ProcessFileCalled
    \/ ProcessFileReturned
    \/ MonitorTick

SpecMonitor == InitMonitor /\ [][NextMonitor]_vars

(***************************************************************************)
(* SpecExtract: a run up to the end of extract_products, on a feed of one  *)
(* entry with a picture, for every name of at most MaxNameLen characters   *)
(* over NameChars.                                                         *)
(***************************************************************************)
MaxNameLen == 3

NameChars == {"a", " ", "\"", "/"}

NamesUpTo(n) == UNION {[1..k -> NameChars] : k \in 0..n}

NamedEntry(name) ==
    [name |-> name, price |-> 20, wmProductPicVos |-> <<[picUrl |-> UrlA]>>]

InitExtract ==
    InitOn({FeedOf(<<NamedEntry(n)>>) : n \in NamesUpTo(MaxNameLen)},
           {NoCatalog})

NextExtract ==
    \/ ThreadStart
    \/ ThreadRunBegin
    \/ StageParse
    \/ StageExtract

SpecExtract == InitExtract /\ [][NextExtract]_vars

(***************************************************************************)
(* SpecEntries: a run up to the end of extract_products, on the feeds of   *)
(* one entry for every combination of name, discountPrice and picture      *)
(* descriptors below, and on the feeds of at most MaxEntries entries that  *)
(* mix valid entries with entries that are skipped.                        *)
(***************************************************************************)
MaxEntries == 2

EntryNames == {<<"a">>, <<" ", "b">>, <<" ">>, <<>>}

\* A name, or no key "name", or a null name.
NameVariants ==
    {[name |-> n, price |-> 20] : n \in EntryNames}
        \cup {[price |-> 20], [name |-> <<>>, price |-> 20, null |-> {"name"}]}

DiscountVariants(e) ==
    {e} \cup {e @@ [discountPrice |-> d] : d \in {-1, 0, 12}}
        \cup {e @@ [discountPrice |-> 0, null |-> {"discountPrice"}]}

PicVariants(e) ==
    {e} \cup {e @@ [wmProductPicVos |-> v] :
                v \in {<<>>,
                       <<[picLargeUrl |-> UrlA, picUrl |-> UrlB]>>,
                       <<[picLargeUrl |-> UrlA]>>,
                       <<[picUrl |-> UrlB]>>,
                       <<[picLargeUrl |-> NoUrl, picUrl |-> UrlB]>>,
                       <<[picId |-> 1]>>,
                       <<[picId |-> 1], [picUrl |-> UrlB]>>,
                       <<JsonNull>>}}

EntryVariants ==
    UNION {PicVariants(d) : d \in UNION {DiscountVariants(n) : n \in NameVariants}}

\* Two entries that are extracted and the entries that are skipped.
MixedEntries ==
    {[name |-> <<"a">>, price |-> 20, discountPrice |-> 12],
     [name |-> <<"b">>, price |-> 15, wmProductPicVos |-> <<[picUrl |-> UrlB]>>],
     [name |-> <<" ">>, price |-> 3],
     [name |-> <<>>, price |-> 20, null |-> {"name"}],
     [name |-> <<"c">>, price |-> 20, discountPrice |-> 0,
      null |-> {"discountPrice"}],
     [name |-> <<"d">>, price |-> 20, wmProductPicVos |-> <<JsonNull>>]}

FeedsUpTo(n) == UNION {[1..k -> MixedEntries] : k \in 1..n}

InitEntries ==
    InitOn({FeedOf(<<e>>) : e \in EntryVariants}
               \cup {FeedOf(f) : f \in FeedsUpTo(MaxEntries)},
           {NoCatalog})

NextEntries ==
    \/ ThreadStart
    \/ ThreadRunBegin
    \/ StageParse
    \/ StageExtract

SpecEntries == InitEntries /\ [][NextEntries]_vars

(***************************************************************************)
(* Properties of the catalog (specification Spec).  atStart is the state   *)
(* of the files when the current run started; saveLog is what the run's    *)
(* save_products_to_excel loaded and wrote.                                *)
(***************************************************************************)
IsPrefix(s, t) == Len(s) <= Len(t) /\ SubSeq(t, 1, Len(s)) = s

RowNames(rows) == {rows[i].name : i \in 1..Len(rows)}

AsRow(p, t) ==
    [name |-> p.name, price |-> p.price, discount_price |-> p.discount_price,
     month_sale |-> p.month_sale, image_url |-> p.image_url,
     image_filename |-> p.image_filename, last_updated |-> t]

\* The rows of the catalog file beyond those it had when the run started.
AppendedRows ==
    SubSeq(catalog.rows, Len(atStart.catalog.rows) + 1, Len(catalog.rows))

\* C1 (catalog append-only): every row the catalog file held when a run
\* started is still in it, with the same content and at the same position,
\* whatever the run's save_products_to_excel did; stated here for the runs
\* whose load of the catalog file did not raise.
CatalogAppendOnly ==
    ~saveLog.loadFailed => IsPrefix(atStart.catalog.rows, catalog.rows)

\* C2 (name-based dedup): no two rows of the catalog file carry the same
\* product name, after any runs over any feeds.
CatalogNamesUnique ==
    \A i, j \in 1..Len(catalog.rows) :
        i # j => catalog.rows[i].name # catalog.rows[j].name

\* C3 (appended rows): when save_products_to_excel ran without a load error
\* and without a write error, the rows it appended are exactly the extracted
\* products whose name is not among the names of the catalog as it was
\* before, in extraction order, each with last_updated = the time of the run.
AppendedAreNewProducts ==
    (saveLog.called /\ ~saveLog.loadFailed /\ ~saveLog.error) =>
        LET names == RowNames(atStart.catalog.rows)
            IsNew(p) == p.name \notin names
            new == SelectSeq(products, IsNew)
        IN  AppendedRows = [i \in 1..Len(new) |-> AsRow(new[i], clock)]

\* C4 (idempotence): a run that finishes on the feed the previous run
\* finished on, the previous run having had no failed image and no catalog
\* error, appends no row and downloads no image: every product with an image
\* is counted skipped.
SecondRunIdempotent ==
    (/\ pc = "finished"
     /\ lastRun.done
     /\ lastRun.data = data
     /\ lastRun.failed = 0
     /\ ~lastRun.saveError
     /\ ~saveLog.loadFailed
     /\ ~saveLog.error) =>
        /\ saveLog.appended = 0
        /\ catalog = atStart.catalog
        /\ downloaded = 0
        /\ failed = 0
        /\ skipped = Cardinality({i \in 1..Len(products) : HasImage(products[i])})

\* C5 (feed decode failure): a run that aborts in the parse stage has written
\* nothing: the catalog file, the image directory and its files are as they
\* were when the run started.
ParseFailureWritesNothing ==
    (pc = "failed" /\ current_step = 1) =>
        /\ catalog = atStart.catalog
        /\ imagesDir = atStart.imagesDir
        /\ images = atStart.images
        /\ temps = atStart.temps

(***************************************************************************)
(* Properties of the image loop (specification Spec).                      *)
(***************************************************************************)
\* C8 (pre-existing images): a product whose target file exists when the loop
\* reaches it is counted skipped without any HTTP request, and the file keeps
\* its content for the rest of the run; no file that existed when the run
\* started is changed by the run.
ExistingImageKept ==
    /\ \A i \in 1..Len(imgLog) :
        Exists(imgLog[i].before) =>
            /\ imgLog[i].action = "skipped"
            /\ ~imgLog[i].requested
            /\ images[imgLog[i].filename] = imgLog[i].before
    /\ skipped = Cardinality({i \in 1..Len(imgLog) : Exists(imgLog[i].before)})
    /\ \A fn \in FileNames :
        Exists(atStart.images[fn]) => images[fn] = atStart.images[fn]

\* A finished run that reached a product whose file was written by an
\* earlier run.
ExistingImageReached ==
    /\ pc = "finished"
    /\ \E i \in 1..Len(imgLog) :
        /\ Exists(imgLog[i].before)
        /\ imgLog[i].before.by < clock

(***************************************************************************)
(* Properties of one _download_single_image call (specification SpecFetch).*)
(* The call has returned when dl.pc is "done"; the loop has counted its    *)
(* result when dl.pc is "counted".                                         *)
(***************************************************************************)
Returned == dl.pc \in {"done", "counted"}

Last(s) == s[Len(s)]

\* How an attempt ends when its except-handler lets the loop go round again.
RetriedOutcomes == NetworkErrors \cup {"status", "write_error"}

\* How an attempt ends when the fetched body is rejected: the call returns
\* False from inside the loop.
RejectedOutcomes == {"small", "convert_failed"}

\* C6 (retry budget), as the specification states it: at most MAX_RETRIES
\* attempts are made, and the call returns failure only after the attempt
\* count is exhausted.  Stated for the shipped setting CONVERT_TO_JPG = True,
\* where no size check is made.
FailureOnlyWhenExhausted ==
    (convertToJpg /\ Returned) =>
        /\ Len(dl.outcomes) <= MAX_RETRIES
        /\ dl.ret = "false" => Len(dl.outcomes) = MAX_RETRIES

\* C6 (retry budget), as the code has it: at most MAX_RETRIES attempts are
\* made, each sending at most AdapterTotal + 1 requests; the call returns
\* success at the first attempt that ends well, every attempt before the last
\* one made ended in an error whose handler retries, and the call returns
\* failure after MAX_RETRIES such errors or at once when a fetched body is
\* rejected (under 1 KB without conversion; conversion and fallback write both
\* failed).
RetryBudget ==
    /\ dl.attempt < MAX_RETRIES
    /\ dl.wire <= (dl.attempt + 1) * (AdapterTotal + 1)
    /\ Len(dl.sleeps) = dl.attempt
    /\ Returned =>
        /\ Len(dl.outcomes) = dl.attempt + 1
        /\ \A i \in 1..(Len(dl.outcomes) - 1) : dl.outcomes[i] \in RetriedOutcomes
        /\ dl.ret = "true" <=> Last(dl.outcomes) = "ok"
        /\ dl.ret = "false" =>
            \/ Last(dl.outcomes) \in RejectedOutcomes
            \/ /\ Len(dl.outcomes) = MAX_RETRIES
               /\ Last(dl.outcomes) \in RetriedOutcomes

\* A call that returned failure after MAX_RETRIES attempts, the first two of
\* which were slept on and retried.
BudgetExhausted ==
    /\ dl.pc = "done"
    /\ dl.ret = "false"
    /\ Len(dl.outcomes) = MAX_RETRIES
    /\ Len(dl.sleeps) = MAX_RETRIES - 1

\* C7 (body under 1 KB, no conversion): the file written is removed and the
\* attempt counts as one failed attempt of the budget, so the call ends on
\* such a body only when that attempt was the last of the budget.
SmallBodyConsumesRetry ==
    (/\ ~convertToJpg
     /\ Returned
     /\ Last(dl.outcomes) = "small") =>
        /\ dl.file = Absent
        /\ Len(dl.outcomes) = MAX_RETRIES

\* C9 (atomic image write): once the call has returned, file_path is absent
\* or holds a completely written file, never a partly written one.
TargetNeverPartial ==
    Returned => dl.file.kind # "partial"

\* C10 (conversion fallback): when decoding or encoding the fetched image
\* failed, the fallback is taken; if its write succeeds file_path holds the
\* fetched bytes as they came, the call returns True and the image is counted
\* downloaded; the call returns False, and the image is counted failed, only
\* if the fallback write failed as well.
ConversionFallback ==
    (Returned /\ dl.convFailed) =>
        /\ dl.fallback \in {"written", "failed"}
        /\ dl.fallback = "written" => (dl.ret = "true" /\ dl.file = Raw(dl.body))
        /\ dl.ret = "false" <=> dl.fallback = "failed"
        /\ dl.pc = "counted" =>
            /\ downloaded = (IF dl.fallback = "written" THEN 1 ELSE 0)
            /\ failed = (IF dl.fallback = "failed" THEN 1 ELSE 0)
            /\ skipped = 0

\* An image that could not be decoded, whose bytes were written as they came
\* and which was counted downloaded.
FallbackCountedDownloaded ==
    /\ dl.pc = "counted"
    /\ dl.convFailed
    /\ ~dl.body.img
    /\ dl.fallback = "written"
    /\ downloaded = 1

(***************************************************************************)
(* Properties of the window's file watching (specification SpecWatch).     *)
(***************************************************************************)
\* C11 (debounce): of two file-change notifications less than DebounceWindow
\* seconds apart only one schedules a reprocessing call, so no two pending
\* calls are due less than DebounceWindow seconds apart.
OneCallPerWindow ==
    \A i, j \in 1..Len(win.timers) :
        i < j => win.timers[j] - win.timers[i] >= DebounceWindow

\* C12 (single run): at most one ProcessorThread is running at any time.
AtMostOneRun == Cardinality(threads) <= 1

(***************************************************************************)
(* Properties of the command-line monitor (specification SpecMonitor).     *)
(***************************************************************************)
\* C13 (skip, not queue): when the settle delay of an accepted notification
\* has elapsed and the watched file no longer exists, no run is started for
\* the notification, so process_file is only ever called on a file that is
\* there; and no run is started for a notification that came while a run was
\* in progress.
SkippedNotQueued ==
    monitor.pc = "processing" =>
        /\ monitor.fileAtCall = "ok"
        /\ ~monitor.wasQueued

\* C14 (cooperative cancellation): once stop() has been requested during a
\* run, the run starts no further pipeline stage and no further iteration of
\* the image loop: the stage counter and the position in the product list do
\* not advance any more.
NoStageAfterStop ==
    [][should_stop /\ pc # "idle" =>
          /\ current_step' <= current_step
          /\ idx' <= idx]_vars

\* C15 (progress after the stage): the progress value of stage k is emitted
\* after stage k has completed: a run that fails in stage k has not emitted
\* the value of stage k, and while products are still waiting in the image
\* stage the value of the sixth stage has not been emitted.
ProgressAfterStage ==
    [][/\ \A k \in 1..total_steps :
            pc = Stages[k] /\ pc' = "failed" => progress' < ProgressOf(k)
       /\ InImageLoop => progress < ProgressOf(total_steps)]_vars

\* C17 (unusable catalog file): whatever the catalog file is (absent,
\* readable, unreadable, readable without the expected columns), the stage
\* that loads it never ends the run: a run that reached it goes on to the
\* stage that saves.
CatalogLoadNeverAborts ==
    [][pc = "load" => pc' # "failed"]_vars

\* C16 (failure isolation): a run that got past extraction is not ended
\* before the image stage, and when it has finished, the image loop has
\* reached every product with an image in extraction order and counted each
\* as exactly one of downloaded, skipped or failed.
ImageStageIsolated ==
    LET withImage == SelectSeq(products, HasImage)
    IN  /\ pc = "failed" => products = <<>>
        /\ pc = "finished" =>
            /\ [i \in 1..Len(imgLog) |-> imgLog[i].filename] =
                    [i \in 1..Len(withImage) |-> withImage[i].image_filename]
            /\ downloaded + skipped + failed = Len(withImage)

\* C18 (one terminal outcome): a run that ends without finished_signal has
\* handed exactly one message of level ERROR to the log, and a run that ends
\* with finished_signal none.
OneTerminalOutcome ==
    /\ pc = "finished" => errorLogs = 0
    /\ pc \in {"failed", "returned"} => errorLogs = 1

(***************************************************************************)
(* Properties of the file names (specification SpecExtract).               *)
(***************************************************************************)
\* The characters that file systems reserve.
Reserved == {"<", ">", ":", "\"", "/", "\\", "|", "?", "*"}

\* A name with every reserved character replaced by its entry in the table.
Substituted(name) ==
    [i \in 1..Len(name) |->
        IF name[i] \in Reserved THEN replacements[name[i]] ELSE name[i]]

\* C19 (filename derivation): with conversion to JPEG switched on, the
\* image_filename of every extracted product with an image is the product's
\* name with each reserved character replaced by its table equivalent and
\* every other character unchanged, followed by .jpg.
FilenameFromProductName ==
    convertToJpg =>
        \A i \in 1..Len(products) :
            HasImage(products[i]) =>
                products[i].image_filename =
                    Append(Substituted(products[i].name), ".jpg")

\* C20 (legal file names): the image_filename of every extracted product
\* holds none of the nine reserved characters.
FilenameLegal ==
    \A i \in 1..Len(products) :
        \A k \in 1..Len(products[i].image_filename) :
            products[i].image_filename[k] \notin Reserved

(***************************************************************************)
(* Properties of extraction (specification SpecEntries).                   *)
(***************************************************************************)
\* The picture descriptors the feed gives for an entry.
Descriptors(item) ==
    IF "wmProductPicVos" \in DOMAIN item THEN item.wmProductPicVos ELSE <<>>

\* The first descriptor's large URL, else its standard URL, else empty.
FirstDescriptorUrl(item) ==
    LET pics == Descriptors(item)
    IN  IF pics = <<>> THEN NoUrl
        ELSE IF "picLargeUrl" \in DOMAIN pics[1] /\ pics[1].picLargeUrl # NoUrl
        THEN pics[1].picLargeUrl
        ELSE IF "picUrl" \in DOMAIN pics[1] THEN pics[1].picUrl
        ELSE NoUrl

\* The feed had one entry and extraction made a product of it.
OneEntryExtracted == Len(data) = 1 /\ Len(products) = 1

\* C21 (image fields): of every extracted product, image_filename is empty
\* if and only if image_url is empty, and the image_url of the product of a
\* one-entry feed is the first descriptor's large URL, else its standard
\* URL, else empty.
ImageFieldsTogether ==
    /\ \A i \in 1..Len(products) :
        (products[i].image_filename = <<>>) <=> (products[i].image_url = NoUrl)
    /\ OneEntryExtracted => products[1].image_url = FirstDescriptorUrl(data[1])

\* A product extracted from an entry whose first descriptor has both URLs.
LargeUrlPreferred ==
    /\ OneEntryExtracted
    /\ Descriptors(data[1]) = <<[picLargeUrl |-> UrlA, picUrl |-> UrlB]>>
    /\ products[1].image_url = UrlA
    /\ products[1].image_filename # <<>>

\* C22 (discount default): the discount_price of the product of a one-entry
\* feed is the entry's discountPrice when the entry has one and it is
\* positive, and the product's original price when the entry has none or it
\* is zero or negative.
DiscountDefault ==
    OneEntryExtracted =>
        products[1].discount_price =
            IF "discountPrice" \in DOMAIN data[1] /\ data[1].discountPrice > 0
            THEN data[1].discountPrice
            ELSE products[1].price

\* A product extracted from an entry whose discountPrice is zero.
ZeroDiscountDefaulted ==
    /\ OneEntryExtracted
    /\ "discountPrice" \in DOMAIN data[1]
    /\ data[1].discountPrice = 0
    /\ products[1].discount_price = data[1].price

\* An entry that extraction keeps: its extraction does not raise and its
\* name is not empty after trimming.
IsValid(item) ==
    ~Raises(item) /\ "name" \in DOMAIN item /\ strip(item.name) # <<>>

\* C23 (per-entry isolation): when extract_products has returned, the
\* products are the entries that are valid, in feed order, each with its
\* trimmed name, which is not empty; entries with an empty name and entries
\* whose extraction raises are left out and nothing else is.
ExtractsValidInOrder ==
    current_step >= 2 =>
        LET valid == SelectSeq(data, IsValid)
        IN  /\ Len(products) = Len(valid)
            /\ \A i \in 1..Len(products) :
                /\ products[i].name = strip(valid[i].name)
                /\ products[i].price = valid[i].price
                /\ products[i].name # <<>>

\* A feed whose first entry's extraction raises and whose second entry is
\* extracted.
ExtractedAfterRaise ==
    /\ current_step >= 2
    /\ Len(data) = 2
    /\ Raises(data[1])
    /\ Len(products) = 1
    /\ products[1].name = strip(data[2].name)

(***************************************************************************)
(* Further properties of one _download_single_image call (specification    *)
(* SpecFetch).                                                             *)
(***************************************************************************)
\* The failures the retry policy names as network-class.
NetworkClass == NetworkErrors \cup {"status"}

\* C24 (retry delay policy): every attempt but the first was preceded by one
\* sleep, the sleep after a failed attempt lasted NetworkDelay seconds when
\* the attempt ended in a TLS, connection, timeout or non-2xx status failure
\* and OtherDelay seconds otherwise, and no sleep follows the last attempt.
RetryDelayPolicy ==
    /\ \A i \in 1..Len(dl.sleeps) :
        dl.sleeps[i] = IF dl.outcomes[i] \in NetworkClass
                       THEN NetworkDelay ELSE OtherDelay
    /\ dl.pc = "get" => Len(dl.sleeps) = dl.attempt
    /\ Returned => Len(dl.sleeps) = Len(dl.outcomes) - 1

\* C24 as amended: the sleep after a failed attempt lasted NetworkDelay
\* seconds when the attempt ended in a TLS, connection or timeout failure and
\* OtherDelay seconds when it ended in any other exception, a non-2xx status
\* among them; every attempt but the first was preceded by one sleep and no
\* sleep follows the last attempt.
RetryDelayByHandler ==
    /\ \A i \in 1..Len(dl.sleeps) :
        dl.sleeps[i] = IF dl.outcomes[i] \in NetworkErrors
                       THEN NetworkDelay ELSE OtherDelay
    /\ dl.pc = "get" => Len(dl.sleeps) = dl.attempt
    /\ Returned => Len(dl.sleeps) = Len(dl.outcomes) - 1

\* A call that has returned after a non-2xx status and a network error, each
\* followed by its sleep.
SleptAfterStatusAndNetwork ==
    /\ Returned
    /\ \E i, j \in 1..Len(dl.sleeps) :
        /\ dl.outcomes[i] = "status"
        /\ dl.sleeps[i] = OtherDelay
        /\ dl.outcomes[j] \in NetworkErrors
        /\ dl.sleeps[j] = NetworkDelay

\* C25 (temp-file cleanup): when _download_and_convert_to_jpg has returned,
\* whichever way it went, the file file_path + '.temp' does not exist.
TempFileRemoved ==
    Returned => ~Exists(dl.temp)

(***************************************************************************)
(* Further properties of the file monitor (specification SpecMonitor).     *)
(***************************************************************************)
\* C26 (window from the last accepted event): on_modified discards an event
\* only when less than DebounceWindow seconds have passed since the last
\* accepted one, and discarding leaves last_modified as it is; last_modified
\* changes only when an event is accepted, to the time of that event.
WindowFromLastAccepted ==
    [][/\ monitor'.discardedAt # monitor.discardedAt =>
            /\ time - monitor.last_modified < DebounceWindow
            /\ monitor'.last_modified = monitor.last_modified
       /\ monitor'.last_modified # monitor.last_modified =>
            /\ time - monitor.last_modified >= DebounceWindow
            /\ monitor'.last_modified = time
            /\ monitor'.pc = "settling"]_vars

\* An event accepted less than DebounceWindow seconds after a discarded one.
AcceptedSoonAfterDiscarded ==
    /\ monitor.pc = "settling"
    /\ monitor.discardedAt # 0
    /\ monitor.last_modified > monitor.discardedAt
    /\ monitor.last_modified - monitor.discardedAt < DebounceWindow

(***************************************************************************)
(* SpecRepeat: whole runs on feeds in which several entries with a picture *)
(* carry the same name, so that several products of one run have the same  *)
(* image_filename.  EntryA3 has the name of EntryA and another picture:    *)
(* its image_filename is that of EntryA when pictures are converted to     *)
(* JPEG, and differs in its extension when they are not.                   *)
(***************************************************************************)
EntryA3 ==
    [name |-> <<"a", "/">>, price |-> 25, discountPrice |-> 0,
     wmProductPicVos |-> <<[picUrl |-> UrlB]>>]

RepeatFeeds ==
    {FeedOf(<<EntryA, EntryA2, EntryA, EntryB>>), FeedOf(<<EntryA, EntryA3, EntryB>>)}

InitRepeat == InitOn(RepeatFeeds, {NoCatalog, ForeignCatalog})

NextRepeat ==
    \/ ThreadStart
    \/ ThreadRunBegin
    \/ StageParse
    \/ StageExtract
    \/ StageLoad
    \/ StageSave
    \/ StageMakeDirs
    \/ StageDownload
    \/ ImageNone
    \/ ImageSkip
    \/ ImageDownload
    \/ ImagesDone
    \/ ThreadExit

SpecRepeat == InitRepeat /\ [][NextRepeat]_vars

(***************************************************************************)
(* Properties of the image stage on repeated names (specification          *)
(* SpecRepeat).                                                            *)
(***************************************************************************)
\* The positions of imgLog that are about the file fn.
LogOf(fn) == {i \in 1..Len(imgLog) : imgLog[i].filename = fn}

WithUrl == SelectSeq(products, LAMBDA p : p.image_url # NoUrl)

\* C28 (counter consistency): the results of a completed run count every
\* product with an image_url once, as downloaded, skipped or failed, and
\* report the number of extracted products as total_products; while the image
\* stage runs no counter decreases, and a step of the loop raises at most one
\* of them, by one.
CountersConsistent ==
    /\ [](pc = "finished" =>
            /\ results.downloaded_images + results.skipped_images
                   + results.failed_images = Len(WithUrl)
            /\ results.total_products = Len(products))
    /\ [][pc = "images" =>
            /\ downloaded' >= downloaded
            /\ skipped' >= skipped
            /\ failed' >= failed
            /\ (downloaded' + skipped' + failed')
                   - (downloaded + skipped + failed) \in {0, 1}]_vars

\* A completed run over products with and without an image_url that counted
\* an image of each kind.
EachCounterRaised ==
    /\ pc = "finished"
    /\ results.downloaded_images > 0
    /\ results.skipped_images > 0
    /\ results.failed_images > 0
    /\ Len(WithUrl) < Len(products)

(***************************************************************************)
(* Further properties of whole runs (specification Spec).                  *)
(***************************************************************************)
\* C29 (reported new products): the new_products count in the results of a
\* completed run is the number of rows the run appended to the catalog file,
\* whatever the outcomes of reading and writing the file were.
ReportedNewIsAppended ==
    pc = "finished" => results.new_products = saveLog.appended

(***************************************************************************)
(* SpecSteps: whole runs in which _download_single_image is not one step   *)
(* of the image loop but goes through its own steps (request, sleep,       *)
(* write, convert, clean up), each of them a call that returns.  The       *)
(* thread of a run, once started, is scheduled until run() returns;        *)
(* starting a run is up to the user and the file watcher.                  *)
(***************************************************************************)
StepFeeds == {FeedOf(<<EntryA, EntryA2, EntryA>>)}

InitSteps == InitOn(StepFeeds, {NoCatalog})

\* self.image_downloader._download_single_image(url, file_path) is entered.
FetchBegin ==
    /\ InImageLoop
    /\ HasImage(products[idx])
    /\ dl.pc = "idle"
    /\ ~AlreadyThere(images[products[idx].image_filename])
    /\ dl' = DlStart(Absent)
    /\ UNCHANGED <<ctlVars, should_stop, errorLogs, convertToJpg, counters, fsVars,
                   runVars, logVars>>

\* One step of _download_single_image.
FetchStep ==
    /\ pc = "images"
    /\ dl.pc \notin {"idle", "done"}
    /\ dl' \in {Forget(g) : g \in DlNext(dl, convertToJpg)}
    /\ UNCHANGED <<ctlVars, should_stop, errorLogs, convertToJpg, counters, fsVars,
                   runVars, logVars>>

\* _download_single_image has returned: the loop counts the product as
\* downloaded or failed and goes on to the next one.
FetchEnd ==
    /\ pc = "images"
    /\ dl.pc = "done"
    /\ LET fn == products[idx].image_filename
           r == DlResult(dl)
       IN  /\ images' = [images EXCEPT ![fn] =
                            IF r.kind = "absent" THEN NoImage
                            ELSE [kind |-> r.kind, by |-> clock]]
           /\ temps' = IF r.temp THEN temps \cup {fn} ELSE temps \ {fn}
           /\ downloaded' = IF r.ret THEN downloaded + 1 ELSE downloaded
           /\ failed' = IF r.ret THEN failed ELSE failed + 1
           /\ imgLog' = LogImage(fn, IF r.ret THEN "downloaded" ELSE "failed",
                                 r.requested)
    /\ dl' = DlIdle
    /\ idx' = idx + 1
    /\ UNCHANGED <<ctlVars, should_stop, errorLogs, convertToJpg, skipped, feed,
                   catalog, imagesDir, clock, pc, data, products, new_products,
                   current_step, results, atStart, saveLog, lastRun>>

\* The steps of the thread of a run.
RunStep ==
    \/ ThreadRunBegin
    \/ StageParse
    \/ StageExtract
    \/ StageLoad
    \/ StageSave
    \/ StageMakeDirs
    \/ StageDownload
    \/ ImageNone
    \/ ImageSkip
    \/ FetchBegin
    \/ FetchStep
    \/ FetchEnd
    \/ ImagesDone
    \/ ThreadExit

NextSteps == ThreadStart \/ RunStep

SpecSteps == InitSteps /\ [][NextSteps]_vars /\ WF_vars(RunStep)

(***************************************************************************)
(* Termination (specification SpecSteps).                                  *)
(***************************************************************************)
\* C30 (termination): when every request, sleep and file operation returns,
\* every call of _download_single_image returns and every run that was
\* started ends, so that the thread of a run does not stay running.
RunsTerminate ==
    /\ (dl.pc = "get") ~> (dl.pc = "done")
    /\ (pc # "idle") ~> (pc = "idle")

\* A run has ended in which a fetch returned False.
EndedAfterFailedFetch ==
    /\ pc = "idle"
    /\ lastRun.done
    /\ lastRun.failed > 0

====
